---------------------------- MODULE Spec2Model ----------------------------
(***************************************************************************)
(* Model of mlagents/trainers/trainer.py: the TrainerMetrics stopwatch and *)
(* CSV recorder, and the Trainer base class (required-key check, abstract  *)
(* operations, periodic summary).                                          *)
(*                                                                         *)
(* Three specifications share the module:                                  *)
(*   Spec         the TrainerMetrics recorder and the Trainer operations   *)
(*                that delegate to it (get_action, write_training_metrics) *)
(*   SpecParams   Trainer.check_param_keys over the declared keys and the  *)
(*                configurations                                           *)
(*   SpecTrainer  the Trainer base class: the abstract operations and      *)
(*                write_summary                                            *)
(*                                                                         *)
(* Python's None is the empty tuple and a present value v is <<v>>.  An    *)
(* operation that raises leaves the name of the exception in lastError;    *)
(* every assignment the code made before the raise is kept.                *)
(***************************************************************************)
EXTENDS Integers, Sequences, FiniteSets

\* ------------------------------------------------------------------ bounds
\* the clock runs from 0 to MaxTime
MaxTime == 2
\* calls of end_policy_update that follow a start_policy_update_timer
MaxUpdates == 1
\* keys a concrete trainer declares in param_keys
MaxParamKeys == 2
\* samples one statistic holds between two summaries
MaxSamples == 2
\* summaries handed to the summary writer
MaxSummaries == 1

\* --------------------------------------------------------------- constants
None == << >>
Some(v) == << v >>
Val(o) == o[1]

brain_name == "Brain"

FIELD_NAMES ==
  << "Brain name", "Time to update policy", "Time since start of training",
     "Time for last experience collection",
     "Number of experiences used for training", "Mean return" >>

\* The number of arguments line 87 passes to the builtin isinstance.
IsinstanceArgs == 1

\* isinstance takes exactly two arguments; any other count raises TypeError.
isinstance_raises == IsinstanceArgs # 2

\* format(c, '.3f'): the text of c with three decimals, told apart from c.
Format3f(c) == << "%.3f", c >>

VARIABLES
  \* the clock that time() reads
  now,
  \* TrainerMetrics fields
  time_training_start,
  time_start_experience_collection,
  delta_last_experience_collection,
  last_buffer_length,
  last_mean_return,
  time_policy_update_start,
  delta_policy_update,
  rows,
  \* the content of the CSV file at self.path: None when it does not exist,
  \* otherwise <<the sequence of its lines>>
  file,
  \* Trainer.policy: None, or <<"policy">> once a concrete trainer set it
  policy,
  \* the (number_experiences, mean_return) in force at every call of
  \* end_policy_update that followed a start_policy_update_timer
  updates,
  \* the operation called last and the exception it raised ("none": returned)
  lastOp,
  lastError,
  \* Trainer fields and the summary writer
  overridden,
  is_training,
  trainer_parameters,
  param_keys,
  stats,
  written,
  flushes,
  lastArg,
  lastKey

metricsVars ==
  << now, time_training_start, time_start_experience_collection,
     delta_last_experience_collection, last_buffer_length, last_mean_return,
     time_policy_update_start, delta_policy_update, rows, file, policy,
     updates >>

trainerVars ==
  << overridden, is_training, trainer_parameters, param_keys, stats,
     written, flushes, lastArg, lastKey >>

vars == << metricsVars, trainerVars, lastOp, lastError >>

\* -------------------------------------------------------- TrainerMetrics
\* the arguments start_policy_update_timer is called with
ExperienceCounts == {1, 2}
MeanReturns == {0, 1}

\* The state right after TrainerMetrics.__init__ (and Trainer.__init__).
MetricsInit ==
  /\ now = 0
  /\ time_training_start = 0
  /\ time_start_experience_collection = None
  /\ delta_last_experience_collection = None
  /\ last_buffer_length = None
  /\ last_mean_return = None
  /\ time_policy_update_start = None
  /\ delta_policy_update = None
  /\ rows = << >>
  /\ updates = << >>
  /\ file \in { None, Some(<< << "stale" >> >>) }
  /\ policy \in { None, Some("policy") }

\* Time passes between two operations.
Tick ==
  /\ now < MaxTime
  /\ now' = now + 1
  /\ lastOp' = "tick"
  /\ lastError' = "none"
  /\ UNCHANGED << time_training_start, time_start_experience_collection,
                  delta_last_experience_collection, last_buffer_length,
                  last_mean_return, time_policy_update_start,
                  delta_policy_update, rows, file, policy, updates >>
  /\ UNCHANGED trainerVars

\* A start that is not idempotent: it restarts a running interval.
StartCollection_restart == time_start_experience_collection' = Some(now)

\* The assignment of start_experience_collection_timer.
StartCollection ==
  time_start_experience_collection' =
    IF time_start_experience_collection = None
    THEN Some(now)
    ELSE time_start_experience_collection

start_experience_collection_timer ==
  /\ StartCollection
  /\ lastOp' = "start_experience_collection_timer"
  /\ lastError' = "none"
  /\ UNCHANGED << now, time_training_start, delta_last_experience_collection,
                  last_buffer_length, last_mean_return,
                  time_policy_update_start, delta_policy_update, rows, file,
                  policy, updates >>
  /\ UNCHANGED trainerVars

\* An end that records the duration and leaves the start marker set.
end_experience_collection_timer_keeps_marker ==
  /\ lastOp' = "end_experience_collection_timer"
  /\ IF time_start_experience_collection = None
     THEN /\ lastError' = "TypeError"
          /\ UNCHANGED delta_last_experience_collection
     ELSE /\ lastError' = "none"
          /\ delta_last_experience_collection' =
               Some(now - Val(time_start_experience_collection))
  /\ UNCHANGED << now, time_training_start, time_start_experience_collection,
                  last_buffer_length, last_mean_return,
                  time_policy_update_start, delta_policy_update, rows, file,
                  policy, updates >>
  /\ UNCHANGED trainerVars

\* An end that takes a missing start for time 0 instead of failing.
end_experience_collection_timer_defaults_start ==
  /\ lastOp' = "end_experience_collection_timer"
  /\ lastError' = "none"
  /\ delta_last_experience_collection' =
       Some(now - (IF time_start_experience_collection = None
                   THEN 0 ELSE Val(time_start_experience_collection)))
  /\ time_start_experience_collection' = None
  /\ UNCHANGED << now, time_training_start, last_buffer_length,
                  last_mean_return, time_policy_update_start,
                  delta_policy_update, rows, file, policy, updates >>
  /\ UNCHANGED trainerVars

end_experience_collection_timer ==
  /\ lastOp' = "end_experience_collection_timer"
  /\ IF time_start_experience_collection = None
     THEN \* time() - None raises before anything is assigned
          /\ lastError' = "TypeError"
          /\ UNCHANGED << time_start_experience_collection,
                          delta_last_experience_collection >>
     ELSE /\ lastError' = "none"
          /\ delta_last_experience_collection' =
               Some(now - Val(time_start_experience_collection))
          /\ time_start_experience_collection' = None
  /\ UNCHANGED << now, time_training_start, last_buffer_length,
                  last_mean_return, time_policy_update_start,
                  delta_policy_update, rows, file, policy, updates >>
  /\ UNCHANGED trainerVars

start_policy_update_timer(number_experiences, mean_return) ==
  /\ last_buffer_length' = Some(number_experiences)
  /\ last_mean_return' = Some(mean_return)
  /\ time_policy_update_start' = Some(now)
  /\ lastOp' = "start_policy_update_timer"
  /\ lastError' = "none"
  /\ UNCHANGED << now, time_training_start, time_start_experience_collection,
                  delta_last_experience_collection, delta_policy_update, rows,
                  file, policy, updates >>
  /\ UNCHANGED trainerVars

\* The row lines 86-90 build: the brain name, then the three durations and
\* the mean return as '.3f' text and the experience count as it is.
PolicyUpdateRow(delta_update, delta_train_start) ==
  << brain_name, Format3f(delta_update), Format3f(delta_train_start),
     Format3f(Val(delta_last_experience_collection)),
     Val(last_buffer_length), Format3f(Val(last_mean_return)) >>

end_policy_update ==
  /\ Len(updates) < MaxUpdates
  /\ lastOp' = "end_policy_update"
  /\ IF time_policy_update_start = None
     THEN \* line 75: time() - None raises
          /\ lastError' = "TypeError"
          /\ UNCHANGED << delta_policy_update, rows, updates >>
     ELSE /\ delta_policy_update' = Some(now - Val(time_policy_update_start))
          /\ updates' =
               Append(updates, << Val(last_buffer_length), Val(last_mean_return) >>)
          /\ IF delta_last_experience_collection = None
             THEN \* lines 77-85: '{:0.3f}'.format(None) raises
                  /\ lastError' = "TypeError"
                  /\ UNCHANGED rows
             ELSE IF isinstance_raises
             THEN \* line 87: the first element of the generator raises
                  /\ lastError' = "TypeError"
                  /\ UNCHANGED rows
             ELSE /\ lastError' = "none"
                  /\ rows' = Append(rows,
                       PolicyUpdateRow(now - Val(time_policy_update_start),
                                       now - time_training_start))
  /\ UNCHANGED << now, time_training_start, time_start_experience_collection,
                  delta_last_experience_collection, last_buffer_length,
                  last_mean_return, time_policy_update_start, file, policy >>
  /\ UNCHANGED trainerVars

\* What open(path, 'w') and the csv writer leave in the file.
CsvContent == << FIELD_NAMES >> \o rows

\* A writer that opens the file for appending.
WriteCsv_append ==
  file' = Some((IF file = None THEN << >> ELSE Val(file)) \o CsvContent)

WriteCsv == file' = Some(CsvContent)

write_training_metrics ==
  /\ WriteCsv
  /\ lastOp' = "write_training_metrics"
  /\ lastError' = "none"
  /\ UNCHANGED << now, time_training_start, time_start_experience_collection,
                  delta_last_experience_collection, last_buffer_length,
                  last_mean_return, time_policy_update_start,
                  delta_policy_update, rows, policy, updates >>
  /\ UNCHANGED trainerVars

\* ------------------------------------------- Trainer, recorder delegates
get_action ==
  /\ StartCollection
  /\ lastOp' = "get_action"
  /\ lastError' = IF policy = None THEN "AttributeError" ELSE "none"
  /\ UNCHANGED << now, time_training_start, delta_last_experience_collection,
                  last_buffer_length, last_mean_return,
                  time_policy_update_start, delta_policy_update, rows, file,
                  policy, updates >>
  /\ UNCHANGED trainerVars

Trainer_write_training_metrics ==
  /\ WriteCsv
  /\ lastOp' = "Trainer.write_training_metrics"
  /\ lastError' = "none"
  /\ UNCHANGED << now, time_training_start, time_start_experience_collection,
                  delta_last_experience_collection, last_buffer_length,
                  last_mean_return, time_policy_update_start,
                  delta_policy_update, rows, policy, updates >>
  /\ UNCHANGED trainerVars

\* The Trainer fields as Trainer.__init__ leaves them.
TrainerBaseInit ==
  /\ overridden = FALSE
  /\ is_training = TRUE
  /\ trainer_parameters = [k \in {"summary_path"} |-> "path"]
  /\ param_keys = << >>
  /\ stats = << >>
  /\ written = << >>
  /\ flushes = 0
  /\ lastArg = None
  /\ lastKey = None

Init ==
  /\ MetricsInit
  /\ TrainerBaseInit
  /\ lastOp = "__init__"
  /\ lastError = "none"

Next ==
  \/ Tick
  \/ start_experience_collection_timer
  \/ end_experience_collection_timer
  \/ \E n \in ExperienceCounts, m \in MeanReturns :
       start_policy_update_timer(n, m)
  \/ end_policy_update
  \/ write_training_metrics
  \/ get_action
  \/ Trainer_write_training_metrics

Spec == Init /\ [][Next]_vars

\* The recorder of a trainer that no recorder operation is called on.
MetricsIdle ==
  /\ now = 0
  /\ time_training_start = 0
  /\ time_start_experience_collection = None
  /\ delta_last_experience_collection = None
  /\ last_buffer_length = None
  /\ last_mean_return = None
  /\ time_policy_update_start = None
  /\ delta_policy_update = None
  /\ rows = << >>
  /\ updates = << >>
  /\ file = None
  /\ policy = None

\* ------------------------------------------------ Trainer.check_param_keys
\* the hyper-parameter names of the model
ParamNames == { "summary_path", "summary_freq", "batch_size", "gamma" }

ParamValue(k) == IF k = "summary_freq" THEN 2 ELSE "value"

\* The sequences over S of length n, and of length at most n.
RECURSIVE SeqsOfLen(_, _)
SeqsOfLen(S, n) ==
  IF n = 0 THEN { << >> }
  ELSE { Append(q, x) : q \in SeqsOfLen(S, n - 1), x \in S }

SeqsUpTo(S, n) == UNION { SeqsOfLen(S, k) : k \in 0..n }

\* The loop of check_param_keys from position i on: the key it raises for,
\* or None when it runs to the end.
RECURSIVE CheckFrom(_)
CheckFrom(i) ==
  IF i > Len(param_keys) THEN None
  ELSE IF param_keys[i] \notin DOMAIN trainer_parameters
       THEN Some(param_keys[i])
       ELSE CheckFrom(i + 1)

\* A check that looks at the first declared key only.
check_param_keys_first_only ==
  LET missing == IF Len(param_keys) > 0
                    /\ param_keys[1] \notin DOMAIN trainer_parameters
                 THEN Some(param_keys[1]) ELSE None
  IN /\ lastOp' = "check_param_keys"
     /\ lastKey' = missing
     /\ lastError' = IF missing = None THEN "none" ELSE "UnityTrainerException"
     /\ UNCHANGED << overridden, is_training, trainer_parameters, param_keys,
                     stats, written, flushes, lastArg >>
     /\ UNCHANGED metricsVars

check_param_keys ==
  LET missing == CheckFrom(1)
  IN /\ lastOp' = "check_param_keys"
     /\ lastKey' = missing
     /\ lastError' = IF missing = None THEN "none" ELSE "UnityTrainerException"
     /\ UNCHANGED << overridden, is_training, trainer_parameters, param_keys,
                     stats, written, flushes, lastArg >>
     /\ UNCHANGED metricsVars

\* A trainer at the end of its constructor: the base class declares no
\* key; a concrete trainer has assigned param_keys.
InitParams ==
  /\ MetricsIdle
  /\ overridden \in BOOLEAN
  /\ is_training = TRUE
  /\ \E D \in SUBSET ParamNames :
       /\ "summary_path" \in D
       /\ trainer_parameters = [k \in D |-> ParamValue(k)]
  /\ param_keys \in
       IF overridden THEN SeqsUpTo(ParamNames, MaxParamKeys) ELSE { << >> }
  /\ stats = << >>
  /\ written = << >>
  /\ flushes = 0
  /\ lastArg = None
  /\ lastKey = None
  /\ lastOp = "__init__"
  /\ lastError = "none"

NextParams == check_param_keys

SpecParams == InitParams /\ [][NextParams]_vars

\* ------------------------------------------- Trainer, abstract operations
UnimplementedOps ==
  { "parameters", "graph_scope", "get_max_steps", "get_step",
    "get_last_reward", "increment_step_and_update_last_reward",
    "add_experiences", "process_experiences", "end_episode",
    "is_ready_update", "update_policy" }

\* The body every unimplemented operation of the base class has: it raises
\* UnityTrainerException whatever its arguments.  A concrete trainer
\* replaces the operation, so the base body runs only when nothing is
\* overridden.
RaiseNotImplemented(op) ==
  /\ ~overridden
  /\ lastOp' = op
  /\ lastError' = "UnityTrainerException"
  /\ lastArg' = None
  /\ UNCHANGED << overridden, is_training, trainer_parameters, param_keys,
                  stats, written, flushes, lastKey >>
  /\ UNCHANGED metricsVars

parameters == RaiseNotImplemented("parameters")
graph_scope == RaiseNotImplemented("graph_scope")
get_max_steps == RaiseNotImplemented("get_max_steps")
get_step == RaiseNotImplemented("get_step")
get_last_reward == RaiseNotImplemented("get_last_reward")
increment_step_and_update_last_reward ==
  RaiseNotImplemented("increment_step_and_update_last_reward")
add_experiences == RaiseNotImplemented("add_experiences")
process_experiences == RaiseNotImplemented("process_experiences")
end_episode == RaiseNotImplemented("end_episode")
is_ready_update == RaiseNotImplemented("is_ready_update")

\* An update_policy that returns None instead of raising.
update_policy_pass ==
  /\ ~overridden
  /\ lastOp' = "update_policy"
  /\ lastError' = "none"
  /\ lastArg' = None
  /\ UNCHANGED << overridden, is_training, trainer_parameters, param_keys,
                  stats, written, flushes, lastKey >>
  /\ UNCHANGED metricsVars

update_policy == RaiseNotImplemented("update_policy")

\* ------------------------------------------------- Trainer.write_summary
RewardKey == "Environment/Cumulative Reward"
LessonTag == "Environment/Lesson"

\* the statistics of the model, in the order a trainer registers them
StatKeyOrder == << "Environment/Cumulative Reward", "Policy/Entropy" >>
StatKeys == { StatKeyOrder[i] : i \in 1..Len(StatKeyOrder) }

\* the samples a trainer records
SampleValues == { 1, 3 }

\* the summary_freq settings, the global_step and lesson_num arguments
FreqValues == { -2, 0, 2 }
GlobalSteps == { -2, 0, 1, 2 }
LessonArgs == { None, Some(1) }

\* Python's a % b for b # 0: the result has the sign of b.
PyMod(a, b) == IF b > 0 THEN a % b ELSE -((-a) % (-b))

\* A condition that forgets the test against step 0.
Triggers_at_zero(global_step, summary_freq) ==
  PyMod(global_step, summary_freq) = 0

\* The condition of line 270, for a summary_freq that is set and not 0.
Triggers(global_step, summary_freq) ==
  PyMod(global_step, summary_freq) = 0 /\ global_step # 0

RECURSIVE SumSeq(_)
SumSeq(q) == IF q = << >> THEN 0 ELSE Head(q) + SumSeq(Tail(q))

\* float(np.mean(q)) of a non-empty q, as the fraction sum / length.
Mean(q) == [num |-> SumSeq(q), den |-> Len(q)]

\* The loop of lines 290-295 from position i of the mapping's key order:
\* the (tag, mean) values it adds to the summary.
RECURSIVE StatValuesFrom(_)
StatValuesFrom(i) ==
  IF i > Len(StatKeyOrder) THEN << >>
  ELSE LET key == StatKeyOrder[i]
       IN IF key \in DOMAIN stats /\ Len(stats[key]) > 0
          THEN << << key, Mean(stats[key]) >> >> \o StatValuesFrom(i + 1)
          ELSE StatValuesFrom(i + 1)

\* The mapping after the loop: every key that held samples is emptied, a
\* key that held none is not assigned.
StatsCleared ==
  [k \in DOMAIN stats |-> IF Len(stats[k]) > 0 THEN << >> ELSE stats[k]]

\* The summary of lines 289-297: the statistics' means, then the lesson.
\* The step it is filed under is the concrete trainer's get_step.
Summary(lesson_num) ==
  [ values |-> StatValuesFrom(1) \o
                 << << LessonTag, [num |-> lesson_num, den |-> 1] >> >>,
    step |-> "get_step" ]

\* What a call leaves when it raises or returns at once: nothing changes.
SummaryUntouched == UNCHANGED << stats, written, flushes >>

write_summary(global_step, lesson_arg) ==
  LET lesson_num == IF lesson_arg = None THEN 0 ELSE Val(lesson_arg)
  IN /\ Len(written) < MaxSummaries
     /\ lastOp' = "write_summary"
     /\ lastArg' = Some([global_step |-> global_step, lesson |-> lesson_arg])
     /\ IF "summary_freq" \notin DOMAIN trainer_parameters
        THEN /\ lastError' = "KeyError"
             /\ SummaryUntouched
        ELSE IF trainer_parameters["summary_freq"] = 0
        THEN /\ lastError' = "ZeroDivisionError"
             /\ SummaryUntouched
        ELSE IF ~Triggers(global_step, trainer_parameters["summary_freq"])
        THEN /\ lastError' = "none"
             /\ SummaryUntouched
        ELSE IF is_training /\ ~overridden
        THEN \* line 271 reads get_step, which the base class raises from
             /\ lastError' = "UnityTrainerException"
             /\ SummaryUntouched
        ELSE IF RewardKey \notin DOMAIN stats
        THEN \* line 272 looks the reward statistic up
             /\ lastError' = "KeyError"
             /\ SummaryUntouched
        ELSE IF ~overridden
        THEN \* lines 281 and 288 read get_step
             /\ lastError' = "UnityTrainerException"
             /\ SummaryUntouched
        ELSE /\ lastError' = "none"
             /\ stats' = StatsCleared
             /\ written' = Append(written, Summary(lesson_num))
             /\ flushes' = flushes + 1
     /\ UNCHANGED << overridden, is_training, trainer_parameters, param_keys,
                     lastKey >>
     /\ UNCHANGED metricsVars

\* A concrete trainer records one sample of a statistic it registered.
record_stat(key, v) ==
  /\ overridden
  /\ Len(written) < MaxSummaries
  /\ key \in DOMAIN stats
  /\ Len(stats[key]) < MaxSamples
  /\ stats' = [stats EXCEPT ![key] = Append(@, v)]
  /\ lastOp' = "record_stat"
  /\ lastError' = "none"
  /\ lastArg' = None
  /\ UNCHANGED << overridden, is_training, trainer_parameters, param_keys,
                  written, flushes, lastKey >>
  /\ UNCHANGED metricsVars

\* A trainer at the end of its constructor.  The base class leaves stats
\* empty; a concrete trainer registers the statistics it records.
InitTrainer ==
  /\ MetricsIdle
  /\ overridden \in BOOLEAN
  /\ is_training \in BOOLEAN
  /\ \/ trainer_parameters = [k \in {"summary_path"} |-> "path"]
     \/ \E f \in FreqValues :
          trainer_parameters =
            [k \in {"summary_path", "summary_freq"} |->
               IF k = "summary_freq" THEN f ELSE "path"]
  /\ param_keys = << >>
  /\ \E D \in (IF overridden THEN SUBSET StatKeys ELSE { {} }) :
       stats = [k \in D |-> << >>]
  /\ written = << >>
  /\ flushes = 0
  /\ lastArg = None
  /\ lastKey = None
  /\ lastOp = "__init__"
  /\ lastError = "none"

NextTrainer ==
  \/ \E g \in GlobalSteps, l \in LessonArgs : write_summary(g, l)
  \/ \E k \in StatKeys, v \in SampleValues : record_stat(k, v)
  \/ parameters
  \/ graph_scope
  \/ get_max_steps
  \/ get_step
  \/ get_last_reward
  \/ increment_step_and_update_last_reward
  \/ add_experiences
  \/ process_experiences
  \/ end_episode
  \/ is_ready_update
  \/ update_policy

SpecTrainer == InitTrainer /\ [][NextTrainer]_vars

\* ------------------------------------------------ claims on the recorder
StartOps == { "start_experience_collection_timer", "get_action" }
WriteOps == { "write_training_metrics", "Trainer.write_training_metrics" }

\* C1: after N calls of end_policy_update, each after a
\* start_policy_update_timer, rows holds exactly N rows in call order, the
\* k-th with the brain name and the number_experiences and mean_return of
\* the start_policy_update_timer before the k-th end_policy_update.  Stated
\* for the calls made once a collection interval has been measured, so
\* that every value of the row exists.
C1_RowsMatchUpdates ==
  ( lastOp = "end_policy_update"
    /\ delta_last_experience_collection # None ) =>
      /\ Len(rows) = Len(updates)
      /\ \A k \in 1..Len(rows) :
           /\ rows[k][1] = brain_name
           /\ rows[k][5] = updates[k][1]
           /\ rows[k][6] = Format3f(updates[k][2])

\* C2: a start_experience_collection_timer call (direct, or made by
\* get_action) sets the start marker to the current time only when none is
\* set; with a marker set it leaves the marker and every other field of the
\* recorder as they were.
C2_OnlyFirstStartSets ==
  [][ lastOp' \in StartOps =>
        /\ time_start_experience_collection = None =>
             time_start_experience_collection' = Some(now)
        /\ time_start_experience_collection # None =>
             time_start_experience_collection' =
               time_start_experience_collection
        /\ UNCHANGED << time_training_start,
                        delta_last_experience_collection, last_buffer_length,
                        last_mean_return, time_policy_update_start,
                        delta_policy_update, rows, file >> ]_vars

\* A start call made after the clock moved on from a marker that is kept.
C2_Witness ==
  /\ lastOp \in StartOps
  /\ time_start_experience_collection # None
  /\ Val(time_start_experience_collection) < now

\* C3: end_experience_collection_timer with a marker set stores
\* (current time - start time) in delta_last_experience_collection and
\* resets the marker to None, and a start call right after it records the
\* current time as a fresh start.
C3_EndStoresDeltaAndClears ==
  [][ /\ ( lastOp' = "end_experience_collection_timer"
           /\ time_start_experience_collection # None ) =>
             /\ lastError' = "none"
             /\ delta_last_experience_collection' =
                  Some(now - Val(time_start_experience_collection))
             /\ time_start_experience_collection' = None
      /\ ( lastOp = "end_experience_collection_timer"
           /\ lastError = "none"
           /\ lastOp' \in StartOps ) =>
             time_start_experience_collection' = Some(now) ]_vars

\* An end that measured a non-empty interval and cleared the marker.
C3_Witness ==
  /\ lastOp = "end_experience_collection_timer"
  /\ lastError = "none"
  /\ time_start_experience_collection = None
  /\ delta_last_experience_collection # None
  /\ Val(delta_last_experience_collection) > 0

\* C4: end_experience_collection_timer with no marker set fails with an
\* error; delta_last_experience_collection keeps its value and the marker
\* stays None.
C4_EndWithoutStartFails ==
  [][ ( lastOp' = "end_experience_collection_timer"
        /\ time_start_experience_collection = None ) =>
          /\ lastError' # "none"
          /\ delta_last_experience_collection' =
               delta_last_experience_collection
          /\ time_start_experience_collection' = None ]_vars

\* A second end in a row: it failed and the earlier duration is still there.
C4_Witness ==
  /\ lastOp = "end_experience_collection_timer"
  /\ lastError = "TypeError"
  /\ delta_last_experience_collection # None
  /\ time_start_experience_collection = None

MissingPositions ==
  { i \in 1..Len(param_keys) : param_keys[i] \notin DOMAIN trainer_parameters }

\* C6: check_param_keys raises UnityTrainerException exactly when some key
\* of param_keys is absent from trainer_parameters, the error names the
\* first missing key in param_keys order, it returns silently when every
\* key is present, and trainer_parameters is unchanged either way.
C6_CheckParamKeys ==
  [][ lastOp' = "check_param_keys" =>
        /\ (lastError' = "UnityTrainerException") <=> (MissingPositions # {})
        /\ MissingPositions = {} => lastError' = "none" /\ lastKey' = None
        /\ MissingPositions # {} =>
             \E i \in MissingPositions :
               /\ \A j \in MissingPositions : i <= j
               /\ lastKey' = Some(param_keys[i])
        /\ UNCHANGED << trainer_parameters, param_keys >> ]_vars

\* The first declared key is present, the second is missing and is named.
C6_Witness ==
  /\ lastOp = "check_param_keys"
  /\ lastError = "UnityTrainerException"
  /\ Len(param_keys) = 2
  /\ param_keys[1] \in DOMAIN trainer_parameters
  /\ lastKey = Some(param_keys[2])

Abs(n) == IF n < 0 THEN -n ELSE n

\* g = k * f for some integer k.
IsMultiple(g, f) == \E k \in (-Abs(g))..Abs(g) : g = k * f

\* The last call was write_summary(g, ...) under summary_freq = f.
SummaryCall(g, f) ==
  /\ lastOp' = "write_summary"
  /\ "summary_freq" \in DOMAIN trainer_parameters
  /\ f = trainer_parameters["summary_freq"]
  /\ g = Val(lastArg').global_step

\* C7, as stated: for every summary_freq setting (here 0 and above, on a
\* concrete trainer) and every global_step that is 0, negative or not a
\* multiple of summary_freq, write_summary returns without error, emits
\* nothing and leaves the statistics unchanged.
C7_NoOpUnlessPositiveMultiple ==
  [][ \A g \in GlobalSteps, f \in FreqValues :
        ( SummaryCall(g, f) /\ overridden /\ f >= 0
          /\ (g <= 0 \/ ~IsMultiple(g, f)) ) =>
          /\ lastError' = "none"
          /\ UNCHANGED << stats, written, flushes >> ]_vars

\* C7, amended: for every summary_freq setting other than 0 and every
\* global_step that is 0 or not a multiple of summary_freq, write_summary
\* returns without error, emits nothing and leaves the statistics unchanged.
C7_NoOpUnlessNonZeroMultiple ==
  [][ \A g \in GlobalSteps, f \in FreqValues :
        ( SummaryCall(g, f) /\ f # 0 /\ (g = 0 \/ ~IsMultiple(g, f)) ) =>
          /\ lastError' = "none"
          /\ UNCHANGED << stats, written, flushes >> ]_vars

\* A call at step 0 of a trainer that holds samples: they are still there.
C7_Witness ==
  /\ lastOp = "write_summary"
  /\ lastError = "none"
  /\ Val(lastArg).global_step = 0
  /\ "summary_freq" \in DOMAIN trainer_parameters
  /\ trainer_parameters["summary_freq"] # 0
  /\ written = << >>
  /\ \E k \in DOMAIN stats : Len(stats[k]) > 0

\* The values of the summary the step appended, if it appended one.
NewValues ==
  IF Len(written') = Len(written) + 1
  THEN written'[Len(written')].values
  ELSE << >>

Emitted(tag, v) == \E i \in 1..Len(NewValues) : NewValues[i] = << tag, v >>

EmittedTag(tag) == \E i \in 1..Len(NewValues) : NewValues[i][1] = tag

\* C8: after a triggered write_summary of a concrete trainer, every
\* statistic that held samples has had its mean emitted under its own tag
\* and is empty, every statistic that was empty is untouched and emits
\* nothing, and the mapping has the keys it had.
C8_TriggeredSummaryDrainsStats ==
  [][ \A g \in GlobalSteps, f \in FreqValues :
        ( SummaryCall(g, f) /\ overridden /\ f > 0 /\ g > 0
          /\ IsMultiple(g, f) ) =>
          /\ DOMAIN stats' = DOMAIN stats
          /\ \A k \in DOMAIN stats :
               IF Len(stats[k]) > 0
               THEN /\ stats'[k] = << >>
                    /\ \E v \in { Mean(stats[k]) } : Emitted(k, v)
               ELSE /\ stats'[k] = stats[k]
                    /\ ~EmittedTag(k) ]_vars

\* C9: every write_summary call of a concrete trainer at a positive
\* multiple of summary_freq hands the writer one summary that holds the
\* 'Environment/Lesson' value (0 when none is passed) and flushes, whatever
\* the statistics mapping holds; a call at any other step hands it none.
C9_OneSummaryPerInterval ==
  [][ \A g \in GlobalSteps, f \in FreqValues :
        ( SummaryCall(g, f) /\ overridden /\ f > 0 /\ g >= 0 ) =>
          IF g > 0 /\ IsMultiple(g, f)
          THEN /\ Len(written') = Len(written) + 1
               /\ flushes' = flushes + 1
               /\ LET l == Val(lastArg').lesson
                  IN Emitted(LessonTag,
                             [num |-> IF l = None THEN 0 ELSE Val(l),
                              den |-> 1])
          ELSE /\ written' = written
               /\ flushes' = flushes ]_vars

\* C10: on a trainer that overrides nothing, each of the eleven
\* unimplemented operations raises UnityTrainerException and changes
\* nothing.
C10_UnimplementedAlwaysRaise ==
  [][ ( lastOp' \in UnimplementedOps /\ ~overridden ) =>
        /\ lastError' = "UnityTrainerException"
        /\ UNCHANGED << overridden, is_training, trainer_parameters,
                        param_keys, stats, written, flushes >> ]_vars

\* update_policy was called on the base class and raised.
C10_Witness ==
  /\ lastOp = "update_policy"
  /\ lastError = "UnityTrainerException"
  /\ ~overridden

=============================================================================
